---- MODULE Spec2Model ----
(***************************************************************************)
(* Exact rational arithmetic of src/src/rational.mts: the normalizing      *)
(* constructor, negate, add / subtract / multiply with their variadic      *)
(* reductions, cmp, and the long-division digit generator behind           *)
(* toDecimalPlaces.  Strings are sequences of one-character strings.       *)
(***************************************************************************)
EXTENDS Integers, Sequences, FiniteSets, TLC

\* ------------------------------------------------------------------ bounds
MaxInt == 12    \* |p|, |q| given to the constructor; magnitudes kept by the caller
MaxArg == 3     \* |p|, |q| of the second operand of add / subtract / multiply / cmp
MaxN   == 3     \* largest digit budget given to toDecimalPlaces

\* --------------------------------------------------------------- constants
zero     == 0
one      == 1
minusOne == -1
ten      == 10

\* ------------------------------------------------------------ big integers
Abs(a) == IF a < 0 THEN -a ELSE a

\* JSBI.divide: quotient truncated toward zero
divide(a, b) ==
    IF (a < 0) = (b < 0) THEN Abs(a) \div Abs(b) ELSE -(Abs(a) \div Abs(b))

\* JSBI.remainder: the sign follows the dividend
remainder(a, b) == a - b * divide(a, b)

RECURSIVE gcd(_, _)
gcd(a, b) == IF b # zero THEN gcd(b, remainder(a, b)) ELSE a

\* ----------------------------------------------------------------- strings
DigitChars == <<"0", "1", "2", "3", "4", "5", "6", "7", "8", "9">>

\* q.toString() / `${v}` of a non-negative integer
RECURSIVE toString(_)
toString(q) ==
    IF q < ten THEN <<DigitChars[q + 1]>>
    ELSE toString(q \div ten) \o <<DigitChars[(q % ten) + 1]>>

\* parseInt of one digit character
parseInt(c) == CHOOSE d \in 0..9 : DigitChars[d + 1] = c

\* result.match(/[.]$/)
EndsWithPoint(s) == Len(s) > 0 /\ s[Len(s)] = "."

\* result.replace(".", ""): the first "." removed
RECURSIVE replacePoint(_)
replacePoint(s) ==
    IF s = <<>> THEN <<>>
    ELSE IF Head(s) = "." THEN Tail(s)
    ELSE <<Head(s)>> \o replacePoint(Tail(s))

RECURSIVE DropLeadingZeros(_)
DropLeadingZeros(s) ==
    IF s # <<>> /\ Head(s) = "0" THEN DropLeadingZeros(Tail(s)) ELSE s

\* common.mjs countSignificantDigits: the digits of s, leading zeros excluded
countSignificantDigits(s) ==
    Len(DropLeadingZeros(SelectSeq(s, LAMBDA c : c # "." /\ c # "-")))

\* ---------------------------------------------------------------- outcomes
NoValue == "NoValue"
Returned(v) == [error |-> "none", value |-> v]
Thrown(e)   == [error |-> e, value |-> NoValue]
NoOutcome   == [error |-> "pending", value |-> NoValue]

\* ------------------------------------------------------------- constructor
\* a constructor that resolves the sign and forgets to divide by the gcd
Normalize_unreduced(p, q) ==
    [numerator |-> IF p < zero THEN -p ELSE p,
     denominator |-> IF q < zero THEN -q ELSE q,
     isNegative |-> IF p < zero THEN ~(q < zero) ELSE q < zero]

\* lines 76-96: sign resolution and reduction, for q # 0
Normalize(p, q) ==
    LET neg == IF p < zero THEN ~(q < zero) ELSE q < zero
        num == IF p < zero THEN -p ELSE p
        den == IF q < zero THEN -q ELSE q
        g   == gcd(num, den)
    IN  [numerator |-> divide(num, g),
         denominator |-> divide(den, g),
         isNegative |-> neg]

\* new Rational(p, q)
New(p, q) ==
    IF q = zero THEN Thrown("RangeError") ELSE Returned(Normalize(p, q))

\* a negate that rebuilds the magnitudes in both branches and so never makes
\* a value negative
negate_magnitude(r) == New(r.numerator, r.denominator).value

negate(r) ==
    IF r.isNegative THEN New(r.numerator, r.denominator).value
    ELSE New(r.numerator * minusOne, r.denominator).value

_multiply(a, b) ==
    New(a.numerator * b.numerator, a.denominator * b.denominator)

\* theArgs.reduce(_multiply, init); an exception ends the reduction
RECURSIVE reduceMultiply(_, _)
reduceMultiply(o, theArgs) ==
    IF o.error # "none" \/ theArgs = <<>> THEN o
    ELSE reduceMultiply(_multiply(o.value, Head(theArgs)), Tail(theArgs))

\* a cmp that forgets the receiver's sign
cmp_unsignedReceiver(this, other) ==
    LET a == this.numerator * other.denominator
        b == ((IF other.isNegative THEN minusOne ELSE one) * other.numerator)
                 * this.denominator
    IN  IF a < b THEN -1 ELSE IF b < a THEN 1 ELSE 0

cmp(this, other) ==
    LET a == ((IF this.isNegative THEN minusOne ELSE one) * this.numerator)
                 * other.denominator
        b == ((IF other.isNegative THEN minusOne ELSE one) * other.numerator)
                 * this.denominator
    IN  IF a < b THEN -1 ELSE IF b < a THEN 1 ELSE 0

\* Number.isInteger(n), n given in tenths
isInteger(t) == t % 10 = 0

\* ------------------------------------------------------------------ inputs
Ints == (-MaxInt)..MaxInt
ArgRationals ==
    {Normalize(p, q) : p \in (-MaxArg)..MaxArg, q \in ((-MaxArg)..MaxArg) \ {0}}
\* digit budgets in tenths: the integers -1..MaxN and two non-integers
NValues == {10 * k : k \in (-1)..MaxN} \cup {16, -5}

\* ------------------------------------------------------------------- state
VARIABLES
    pc,         \* "idle", "reduce" (inside add / subtract), "gen" (inside toDecimalPlaces)
    op,         \* the public call in progress, or the last one completed
    args,       \* its arguments
    ret,        \* its outcome
    acc,        \* the Rational the caller holds (receiver and first operand)
    racc,       \* reduce: the accumulator
    rest,       \* reduce: the arguments not yet folded
    stack,      \* frames of _add / _subtract, the active one last
    retval,     \* the value being returned to the frame below
    x, y, n,    \* nextDigitForDivision: parameters
    result, emittedDecimalPoint, done,      \* nextDigitForDivision: locals
    step,       \* the branch the last loop iteration took
    yielded,    \* the values it yielded
    rendered    \* toDecimalPlaces: its local result

vars == <<pc, op, args, ret, acc, racc, rest, stack, retval, x, y, n, result,
          emittedDecimalPoint, done, step, yielded, rendered>>

NoReduce ==
    /\ racc' = NoValue /\ rest' = <<>> /\ stack' = <<>> /\ retval' = NoOutcome

NoGen ==
    /\ x' = zero /\ y' = one /\ n' = 0 /\ result' = <<>>
    /\ emittedDecimalPoint' = FALSE /\ done' = FALSE
    /\ step' = "none" /\ yielded' = <<>> /\ rendered' = <<>>

Init ==
    /\ pc = "idle" /\ op = "none" /\ args = <<>> /\ ret = NoOutcome
    /\ acc = Normalize(zero, one)
    /\ racc = NoValue /\ rest = <<>> /\ stack = <<>> /\ retval = NoOutcome
    /\ x = zero /\ y = one /\ n = 0 /\ result = <<>>
    /\ emittedDecimalPoint = FALSE /\ done = FALSE
    /\ step = "none" /\ yielded = <<>> /\ rendered = <<>>

\* the caller keeps magnitudes within MaxInt
Fits(a, b) ==
    /\ a.numerator * b.denominator + b.numerator * a.denominator <= MaxInt
    /\ a.numerator * b.numerator <= MaxInt
    /\ a.denominator * b.denominator <= MaxInt

\* -------------------------------------------------------------- operations
\* the caller constructs its Rational first, then applies operations to it
Construct(p, q) ==
    /\ pc = "idle" /\ op = "none"
    /\ op' = "construct" /\ args' = <<p, q>>
    /\ ret' = New(p, q)
    /\ acc' = IF ret'.error = "none" THEN ret'.value ELSE acc
    /\ pc' = "idle"
    /\ NoReduce /\ NoGen

multiply(theArgs) ==
    /\ pc = "idle"
    /\ op' = "multiply" /\ args' = theArgs
    /\ ret' = reduceMultiply(New(one, one), theArgs)
    /\ acc' = IF ret'.error = "none" THEN ret'.value ELSE acc
    /\ pc' = "idle"
    /\ NoReduce /\ NoGen

Cmp(other) ==
    /\ pc = "idle"
    /\ op' = "cmp" /\ args' = <<acc, other>>
    /\ ret' = Returned(cmp(acc, other))
    /\ pc' = "idle"
    /\ UNCHANGED acc
    /\ NoReduce /\ NoGen

\* ------------------------------------------- add / subtract: the reduction
Top == stack[Len(stack)]
Pop == SubSeq(stack, 1, Len(stack) - 1)
Frame(f, a, b) == [fn |-> f, x |-> a, y |-> b]

add(theArgs) ==
    /\ pc = "idle"
    /\ op' = "add" /\ args' = theArgs /\ ret' = NoOutcome
    /\ racc' = New(zero, one).value /\ rest' = theArgs
    /\ stack' = <<>> /\ retval' = NoOutcome
    /\ pc' = "reduce"
    /\ UNCHANGED acc
    /\ NoGen

subtract(a, theArgs) ==
    /\ pc = "idle"
    /\ op' = "subtract" /\ args' = <<a>> \o theArgs /\ ret' = NoOutcome
    /\ racc' = a /\ rest' = theArgs
    /\ stack' = <<>> /\ retval' = NoOutcome
    /\ pc' = "reduce"
    /\ UNCHANGED acc
    /\ NoGen

\* reduce calls its callback on the accumulator and the next argument
ReduceCall ==
    /\ pc = "reduce" /\ stack = <<>> /\ retval.error = "pending" /\ rest # <<>>
    /\ stack' = <<Frame(IF op = "add" THEN "_add" ELSE "_subtract", racc, Head(rest))>>
    /\ rest' = Tail(rest)
    /\ UNCHANGED <<pc, op, args, ret, acc, racc, retval, x, y, n, result,
                   emittedDecimalPoint, done, step, yielded, rendered>>

\* the callback's value becomes the accumulator
ReduceStep ==
    /\ pc = "reduce" /\ stack = <<>> /\ retval.error = "none"
    /\ racc' = retval.value /\ retval' = NoOutcome
    /\ UNCHANGED <<pc, op, args, ret, acc, rest, stack, x, y, n, result,
                   emittedDecimalPoint, done, step, yielded, rendered>>

\* reduce returns the accumulator; the caller keeps it
ReduceDone ==
    /\ pc = "reduce" /\ stack = <<>> /\ retval.error = "pending" /\ rest = <<>>
    /\ ret' = Returned(racc) /\ acc' = racc
    /\ pc' = "idle"
    /\ UNCHANGED <<op, args, racc, rest, stack, retval, x, y, n, result,
                   emittedDecimalPoint, done, step, yielded, rendered>>

\* the frame on top returns o, or o's exception unwinds the whole call
Finish(o) ==
    IF o.error = "none"
    THEN /\ retval' = o /\ stack' = Pop
         /\ UNCHANGED <<pc, ret>>
    ELSE /\ retval' = NoOutcome /\ stack' = <<>>
         /\ pc' = "idle" /\ ret' = o

_add ==
    /\ pc = "reduce" /\ stack # <<>> /\ retval.error = "pending"
    /\ Top.fn = "_add"
    /\ IF Top.x.isNegative
       THEN /\ stack' = Append(stack, Frame("_subtract", Top.y, negate(Top.x)))
            /\ UNCHANGED <<pc, ret, retval>>
       ELSE IF Top.y.isNegative
       THEN /\ stack' = Append(stack, Frame("_subtract", Top.x, negate(Top.y)))
            /\ UNCHANGED <<pc, ret, retval>>
       ELSE Finish(New(Top.x.numerator * Top.y.denominator
                           + Top.y.numerator * Top.x.denominator,
                       Top.x.denominator * Top.y.denominator))
    /\ UNCHANGED <<op, args, acc, racc, rest, x, y, n, result,
                   emittedDecimalPoint, done, step, yielded, rendered>>

_subtract ==
    /\ pc = "reduce" /\ stack # <<>> /\ retval.error = "pending"
    /\ Top.fn = "_subtract"
    /\ IF Top.x.isNegative
       THEN /\ stack' = Append(stack, Frame("_add", negate(Top.x), Top.y))
            /\ UNCHANGED <<pc, ret, retval>>
       ELSE Finish(New(Top.x.numerator * Top.y.denominator
                           - Top.y.numerator * Top.x.denominator,
                       Top.x.denominator * Top.y.denominator))
    /\ UNCHANGED <<op, args, acc, racc, rest, x, y, n, result,
                   emittedDecimalPoint, done, step, yielded, rendered>>

\* a nested call returns into the frame that made it: _add returns the value
\* as it is (lines 118, 122), _subtract returns its negation (line 136)
Return ==
    /\ pc = "reduce" /\ stack # <<>> /\ retval.error = "none"
    /\ retval' = IF Top.fn = "_subtract" THEN Returned(negate(retval.value))
                 ELSE retval
    /\ stack' = Pop
    /\ UNCHANGED <<pc, op, args, ret, acc, racc, rest, x, y, n, result,
                   emittedDecimalPoint, done, step, yielded, rendered>>

\* ------------------------------------------------------------- toDecimalPlaces
\* the loop condition of nextDigitForDivision (lines 23-28)
LoopGuard ==
    /\ ~done
    /\ countSignificantDigits(
           IF EndsWithPoint(result) THEN replacePoint(result) ELSE result) < n

\* toDecimalPlaces consumes the yielded values (lines 199-208)
RECURSIVE Consume(_, _)
Consume(r, vs) ==
    IF vs = <<>> THEN r
    ELSE Consume(IF Head(vs) = -1
                 THEN (IF r = <<>> THEN <<"0">> ELSE r) \o <<".">>
                 ELSE r \o toString(Head(vs)),
                 Tail(vs))

\* a toDecimalPlaces that short-circuits on zero before it validates n
toDecimalPlaces_zeroFirst(t) ==
    /\ pc = "idle"
    /\ op' = "toDecimalPlaces" /\ args' = <<t>>
    /\ UNCHANGED acc
    /\ NoReduce
    /\ IF acc.numerator = zero
       THEN ret' = Returned(<<"0">>) /\ pc' = "idle" /\ NoGen
       ELSE IF ~isInteger(t)
       THEN ret' = Thrown("TypeError") /\ pc' = "idle" /\ NoGen
       ELSE IF t < 0
       THEN ret' = Thrown("RangeError") /\ pc' = "idle" /\ NoGen
       ELSE /\ ret' = NoOutcome /\ pc' = "gen"
            /\ x' = acc.numerator /\ y' = acc.denominator /\ n' = t \div 10
            /\ result' = <<>> /\ emittedDecimalPoint' = FALSE /\ done' = FALSE
            /\ step' = "none" /\ yielded' = <<>> /\ rendered' = <<>>

toDecimalPlaces(t) ==
    /\ pc = "idle"
    /\ op' = "toDecimalPlaces" /\ args' = <<t>>
    /\ UNCHANGED acc
    /\ NoReduce
    /\ IF ~isInteger(t)
       THEN ret' = Thrown("TypeError") /\ pc' = "idle" /\ NoGen
       ELSE IF t < 0
       THEN ret' = Thrown("RangeError") /\ pc' = "idle" /\ NoGen
       ELSE IF acc.numerator = zero
       THEN ret' = Returned(<<"0">>) /\ pc' = "idle" /\ NoGen
       ELSE /\ ret' = NoOutcome /\ pc' = "gen"
            /\ x' = acc.numerator /\ y' = acc.denominator /\ n' = t \div 10
            /\ result' = <<>> /\ emittedDecimalPoint' = FALSE /\ done' = FALSE
            /\ step' = "none" /\ yielded' = <<>> /\ rendered' = <<>>

\* line 29-30
GenExact ==
    /\ pc = "gen" /\ LoopGuard
    /\ x = zero
    /\ done' = TRUE
    /\ step' = "exact" /\ yielded' = <<>>
    /\ UNCHANGED <<pc, op, args, ret, acc, racc, rest, stack, retval, x, y, n,
                   result, emittedDecimalPoint, rendered>>

\* a first fractional step that looks ahead before it emits the decimal point
GenPoint_zeroFirst ==
    /\ pc = "gen" /\ LoopGuard
    /\ x # zero /\ x < y /\ ~emittedDecimalPoint
    /\ emittedDecimalPoint' = TRUE
    /\ x' = x * ten
    /\ LET r == IF result = <<>> THEN <<"0">> ELSE result
       IN  IF x' < y
           THEN result' = r \o <<"0", ".">> /\ yielded' = <<0, -1>>
           ELSE result' = r \o <<".">> /\ yielded' = <<-1>>
    /\ rendered' = Consume(rendered, yielded')
    /\ step' = "point"
    /\ UNCHANGED <<pc, op, args, ret, acc, racc, rest, stack, retval, y, n, done>>

\* lines 39-48: the decimal point, then the look-ahead
GenPoint ==
    /\ pc = "gen" /\ LoopGuard
    /\ x # zero /\ x < y /\ ~emittedDecimalPoint
    /\ emittedDecimalPoint' = TRUE
    /\ x' = x * ten
    /\ LET r == (IF result = <<>> THEN <<"0">> ELSE result) \o <<".">>
       IN  IF x' < y
           THEN result' = r \o <<"0">> /\ yielded' = <<-1, 0>>
           ELSE result' = r /\ yielded' = <<-1>>
    /\ rendered' = Consume(rendered, yielded')
    /\ step' = "point"
    /\ UNCHANGED <<pc, op, args, ret, acc, racc, rest, stack, retval, y, n, done>>

\* a scaling step without the look-ahead
GenScale_noLookAhead ==
    /\ pc = "gen" /\ LoopGuard
    /\ x # zero /\ x < y /\ emittedDecimalPoint
    /\ x' = x * ten
    /\ result' = result /\ yielded' = <<>>
    /\ rendered' = Consume(rendered, yielded')
    /\ step' = "scale"
    /\ UNCHANGED <<pc, op, args, ret, acc, racc, rest, stack, retval, y, n, done,
                   emittedDecimalPoint>>

\* lines 32-38: scaling after the decimal point, then the look-ahead
GenScale ==
    /\ pc = "gen" /\ LoopGuard
    /\ x # zero /\ x < y /\ emittedDecimalPoint
    /\ x' = x * ten
    /\ IF x' < y
       THEN result' = result \o <<"0">> /\ yielded' = <<0>>
       ELSE result' = result /\ yielded' = <<>>
    /\ rendered' = Consume(rendered, yielded')
    /\ step' = "scale"
    /\ UNCHANGED <<pc, op, args, ret, acc, racc, rest, stack, retval, y, n, done,
                   emittedDecimalPoint>>

\* lines 50-58: the quotient's digits
GenQuotient ==
    /\ pc = "gen" /\ LoopGuard
    /\ x # zero /\ ~(x < y)
    /\ LET q == divide(x, y)
           qString == toString(q)
       IN  /\ x' = remainder(x, y)
           /\ result' = result \o qString
           /\ yielded' = [i \in 1..Len(qString) |-> parseInt(qString[i])]
    /\ rendered' = Consume(rendered, yielded')
    /\ step' = "quotient"
    /\ UNCHANGED <<pc, op, args, ret, acc, racc, rest, stack, retval, y, n, done,
                   emittedDecimalPoint>>

\* lines 61 and 210: the generator is done, the string is returned
GenReturn ==
    /\ pc = "gen" /\ ~LoopGuard
    /\ ret' = Returned((IF acc.isNegative THEN <<"-">> ELSE <<>>) \o rendered)
    /\ pc' = "idle"
    /\ UNCHANGED <<op, args, acc, racc, rest, stack, retval, x, y, n, result,
                   emittedDecimalPoint, done, step, yielded, rendered>>

\* ----------------------------------------------------------- specification
Next ==
    \/ \E p \in Ints, q \in Ints : Construct(p, q)
    \/ \E b \in ArgRationals :
          Fits(acc, b) /\ \E k \in 0..2 : add(SubSeq(<<acc, b>>, 1, k))
    \/ \E b \in ArgRationals :
          Fits(acc, b) /\ \E k \in 0..1 : subtract(acc, SubSeq(<<b>>, 1, k))
    \/ \E b \in ArgRationals :
          Fits(acc, b) /\ \E k \in 0..2 : multiply(SubSeq(<<acc, b>>, 1, k))
    \/ ReduceCall \/ ReduceStep \/ ReduceDone
    \/ _add \/ _subtract \/ Return
    \/ \E b \in ArgRationals : Cmp(b)
    \/ \E t \in NValues : toDecimalPlaces(t)
    \/ GenExact \/ GenPoint \/ GenScale \/ GenQuotient \/ GenReturn

Spec == Init /\ [][Next]_vars

\* ------------------------------------------------------ exact-value helpers
\* the value of a Rational as a signed fraction <<numerator, denominator>>
SignedNum(r) == IF r.isNegative THEN -r.numerator ELSE r.numerator
Value(r) == <<SignedNum(r), r.denominator>>
FracAdd(u, v) == <<u[1] * v[2] + v[1] * u[2], u[2] * v[2]>>
FracSub(u, v) == <<u[1] * v[2] - v[1] * u[2], u[2] * v[2]>>
FracMul(u, v) == <<u[1] * v[1], u[2] * v[2]>>
FracEq(u, v) == u[1] * v[2] = v[1] * u[2]

RECURSIVE SumOf(_)
SumOf(rs) == IF rs = <<>> THEN <<0, 1>> ELSE FracAdd(Value(Head(rs)), SumOf(Tail(rs)))

\* lowest terms, stated by divisors rather than by Euclid's algorithm
LowestTerms(r) ==
    /\ r.denominator > 0
    /\ r.numerator >= 0
    /\ \A d \in 2..r.denominator :
           ~(r.numerator % d = 0 /\ r.denominator % d = 0)

Canonical(r) == LowestTerms(r) /\ (r.isNegative => r.numerator > 0)

Completed(o) == pc = "idle" /\ op = o

\* ------------------------------------------------------------------ claims

\* C1: every Rational the program holds (the caller's value, every operand and
\* result of add, subtract and multiply, every frame of the recursion) has
\* denominator > 0, numerator >= 0 and gcd(numerator, denominator) = 1.
C1_LowestTerms ==
    /\ LowestTerms(acc)
    /\ (ret.error = "none" /\ op \in {"construct", "add", "subtract", "multiply"})
           => LowestTerms(ret.value)
    /\ pc = "reduce" => LowestTerms(racc)
    /\ \A i \in 1..Len(stack) : LowestTerms(stack[i].x) /\ LowestTerms(stack[i].y)
    /\ retval.error = "none" => LowestTerms(retval.value)

\* a subtraction of two fractions has completed and its result was reduced
C1_Witness ==
    /\ Completed("subtract") /\ Len(args) = 2 /\ ret.error = "none"
    /\ ret.value.numerator > 0
    /\ ret.value.denominator < args[1].denominator * args[2].denominator

\* C2: Construct(0, q) is the canonical zero (0, 1, false) for every q # 0, and
\* for p # 0 isNegative holds exactly when p and q have opposite signs.
C2_SignOnlyWhenNegative ==
    (Completed("construct") /\ ret.error = "none") =>
        LET p == args[1]
            q == args[2]
        IN  /\ p = 0 => ret.value = [numerator |-> 0, denominator |-> 1,
                                      isNegative |-> FALSE]
            /\ p # 0 => (ret.value.isNegative <=> ((p < 0) # (q < 0)))

\* C3: subtract(x, y) returns the normalized Rational whose value is
\* value(x) - value(y), whatever the signs of x and y.
C3_SubtractExact ==
    (Completed("subtract") /\ Len(args) = 2) =>
        /\ ret.error = "none"
        /\ LowestTerms(ret.value)
        /\ FracEq(Value(ret.value), FracSub(Value(args[1]), Value(args[2])))

\* C4: multiply(x, y) returns the exact signed product of x and y, and
\* multiply(x), the product of x with the identity 1/1, has the value of x.
C4_MultiplyExact ==
    Completed("multiply") =>
        /\ ret.error = "none"
        /\ LowestTerms(ret.value)
        /\ Len(args) = 2 =>
               FracEq(Value(ret.value), FracMul(Value(args[1]), Value(args[2])))
        /\ Len(args) = 1 => FracEq(Value(ret.value), Value(args[1]))

\* C5: add returns the canonical Rational whose value is the exact sum of its
\* arguments, whatever their signs; the recursion between _add, _subtract and
\* negate is never more than three frames deep, a call in progress can always
\* take its next step, and it returns without raising.
C5_AddExact ==
    op = "add" =>
        /\ Len(stack) <= 3
        /\ pc = "reduce" =>
               ENABLED (ReduceCall \/ ReduceStep \/ ReduceDone
                            \/ _add \/ _subtract \/ Return)
        /\ pc = "idle" =>
               /\ ret.error = "none"
               /\ Canonical(ret.value)
               /\ FracEq(Value(ret.value), SumOf(args))

\* add of two negative operands has returned: the deepest recursion
C5_Witness ==
    /\ Completed("add") /\ Len(args) = 2 /\ ret.error = "none"
    /\ args[1].isNegative /\ args[2].isNegative
    /\ args[1].numerator > 0 /\ args[2].numerator > 0
    /\ ret.value.isNegative

\* ------------------------------------------------- decimal-string helpers
StripSign(s) == IF s # <<>> /\ Head(s) = "-" THEN Tail(s) ELSE s
DigitsOf(s) == SelectSeq(s, LAMBDA c : c # "." /\ c # "-")
HasPoint(s) == \E i \in 1..Len(s) : s[i] = "."
\* the number of digits after the decimal point
Places(s) ==
    IF HasPoint(s) THEN Len(s) - (CHOOSE i \in 1..Len(s) : s[i] = ".") ELSE 0

RECURSIVE DigitsValue(_)
DigitsValue(ds) ==
    IF ds = <<>> THEN 0
    ELSE 10 * DigitsValue(SubSeq(ds, 1, Len(ds) - 1)) + parseInt(ds[Len(ds)])

RECURSIVE Pow10(_)
Pow10(k) == IF k = 0 THEN 1 ELSE 10 * Pow10(k - 1)

\* s is digits with at most one point, and its value is |v| truncated to the
\* number of places s has
Truncates(s, v) ==
    /\ \A i \in 1..Len(s) : s[i] = "." \/ \E d \in 1..10 : DigitChars[d] = s[i]
    /\ Cardinality({i \in 1..Len(s) : s[i] = "."}) <= 1
    /\ DigitsOf(s) # <<>>
    /\ DigitsValue(DigitsOf(s)) = (v.numerator * Pow10(Places(s))) \div v.denominator

\* significant digits: the digits left after dropping the sign, the decimal
\* point and the leading zeros
SignificantDigits(s) == Len(DropLeadingZeros(DigitsOf(s)))

\* C6: for a nonzero receiver and n >= 1 the string toDecimalPlaces builds is,
\* after every step of the division and when it is returned, the exact
\* expansion of |v| truncated to the places it has: no digit is rounded up.
C6_Truncation ==
    (op = "toDecimalPlaces" /\ acc.numerator # 0 /\ n >= 1) =>
        /\ rendered # <<>> => Truncates(rendered, acc)
        /\ (pc = "idle" /\ ret.error = "none") =>
               /\ ret.value # <<>>
               /\ Truncates(StripSign(ret.value), acc)
               /\ (Head(ret.value) = "-") = acc.isNegative

\* a repeating expansion was cut off after a fractional digit: more was left
C6_Witness ==
    /\ Completed("toDecimalPlaces") /\ ret.error = "none"
    /\ acc.isNegative /\ n >= 2 /\ x # 0
    /\ Places(ret.value) >= 2

\* C7: the string toDecimalPlaces(n) returns has at most n significant digits.
C7_AtMostNSignificant ==
    (Completed("toDecimalPlaces") /\ ret.error = "none") =>
        SignificantDigits(ret.value) <= args[1] \div 10

\* the order of two values, by sign first and by magnitudes within a sign
ValueOrder(a, b) ==
    LET na == a.isNegative /\ a.numerator > 0
        nb == b.isNegative /\ b.numerator > 0
        ma == a.numerator * b.denominator
        mb == b.numerator * a.denominator
    IN  IF na /\ ~nb THEN -1
        ELSE IF nb /\ ~na THEN 1
        ELSE IF ma = mb THEN 0
        ELSE IF (ma < mb) = ~na THEN -1 ELSE 1

\* C8: x.cmp(y) is -1, 0 or 1 as value(x) is less than, equal to or greater
\* than value(y); y.cmp(x) is its negation; cmp is transitive.
C8_CmpTotalOrder ==
    Completed("cmp") =>
        LET a == args[1]
            b == args[2]
        IN  /\ ret.error = "none"
            /\ ret.value = ValueOrder(a, b)
            /\ cmp(b, a) = -ret.value
            /\ \A c \in ArgRationals :
                   (ret.value <= 0 /\ cmp(b, c) <= 0) =>
                       /\ cmp(a, c) <= 0
                       /\ (ret.value < 0 \/ cmp(b, c) < 0) => cmp(a, c) < 0

\* a negative value was compared with a smaller negative value
C8_Witness ==
    /\ Completed("cmp") /\ ret.error = "none"
    /\ args[1].isNegative /\ args[2].isNegative
    /\ args[1].denominator > 1 /\ args[2].denominator > 1
    /\ ret.value = 1

\* C9: Construct raises RangeError exactly when q = 0; toDecimalPlaces raises
\* TypeError exactly for a non-integer n and RangeError exactly for a negative
\* integer n, for every receiver, zero included; a call that raises returns no
\* value; add, subtract, multiply and cmp never raise.
C9_Errors ==
    /\ ret.error # "none" => ret.value = NoValue
    /\ Completed("construct") =>
           ret.error = (IF args[2] = 0 THEN "RangeError" ELSE "none")
    /\ Completed("toDecimalPlaces") =>
           ret.error = (IF args[1] % 10 # 0 THEN "TypeError"
                        ELSE IF args[1] < 0 THEN "RangeError" ELSE "none")
    /\ (pc = "idle" /\ op \in {"add", "subtract", "multiply", "cmp"}) =>
           ret.error = "none"
    /\ pc # "idle" => ret.error = "pending"

\* the zero value was asked for a non-integer number of digits
C9_Witness ==
    /\ Completed("toDecimalPlaces") /\ acc.numerator = 0
    /\ ret.error = "TypeError"

\* the last loop iteration ended by emitting the look-ahead 0
LookAheadZero ==
    /\ step \in {"point", "scale"}
    /\ yielded # <<>> /\ yielded[Len(yielded)] = 0
BeforeZero == SubSeq(result, 1, Len(result) - 1)
NoNonzeroDigit(s) == \A i \in 1..Len(s) : s[i] \in {"0", "."}

\* C10 as stated: every look-ahead 0 is emitted after the decimal-point marker
\* and before any nonzero digit, so it never counts toward the budget.
C10_LeadingRunOnly ==
    LookAheadZero =>
        /\ HasPoint(BeforeZero)
        /\ NoNonzeroDigit(BeforeZero)
        /\ SignificantDigits(result) = SignificantDigits(BeforeZero)

\* C10 amended: every look-ahead 0 is emitted after the decimal-point marker;
\* it is left out of the significant digits when no nonzero digit precedes it
\* and is one more significant digit when one does.
C10_AfterPoint ==
    LookAheadZero =>
        /\ HasPoint(BeforeZero)
        /\ result[Len(result)] = "0"
        /\ rendered = result
        /\ SignificantDigits(result) =
               SignificantDigits(BeforeZero)
                   + (IF NoNonzeroDigit(BeforeZero) THEN 0 ELSE 1)

\* a scaling step emitted its look-ahead 0 after a nonzero digit
C10_Witness ==
    /\ LookAheadZero /\ step = "scale"
    /\ ~NoNonzeroDigit(BeforeZero)

====
